---- MODULE Spec2Model ----
(***************************************************************************)
(* A model of taidy's dispatch engine (src/taidy/cli.py): classification   *)
(* of the inputs, the batch planner of process_files, the worker pool      *)
(* that runs execute_batched_command, and the aggregation of exit codes.   *)
(* Paths, commands and arguments are strings, as in the program.           *)
(***************************************************************************)
EXTENDS Integers, Sequences, FiniteSets, TLC

(***************************************************************************)
(* Bounds of the model.                                                    *)
(***************************************************************************)
\* longest command line (number of file/directory arguments)
MaxFiles == 2
\* largest os.cpu_count() the environment reports (0 stands for None)
MaxCpu == 2
\* largest batch plan whose execution is explored
MaxBatches == 2
MaxThreads == 2
MaxCalls == 3

(***************************************************************************)
(* String helpers: str methods and pathlib.Path accessors.                 *)
(***************************************************************************)
Char(s, i) == SubSeq(s, i, i)

RECURSIVE RFind(_, _, _)
\* str.rfind: the last position <= i of character c in s, 0 when absent
RFind(s, c, i) ==
    IF i = 0 THEN 0
    ELSE IF Char(s, i) = c THEN i
    ELSE RFind(s, c, i - 1)

RECURSIVE Contains(_, _, _)
\* `sub in s`, searched from position i
Contains(s, sub, i) ==
    IF i + Len(sub) - 1 > Len(s) THEN FALSE
    ELSE IF SubSeq(s, i, i + Len(sub) - 1) = sub THEN TRUE
    ELSE Contains(s, sub, i + 1)

UpperAlphabet == "ABCDEFGHIJKLMNOPQRSTUVWXYZ"
LowerAlphabet == "abcdefghijklmnopqrstuvwxyz"

\* the lower-case letter of every upper-case one
LowerTable ==
    [c \in {Char(UpperAlphabet, i) : i \in 1..Len(UpperAlphabet)} |->
        Char(LowerAlphabet, RFind(UpperAlphabet, c, Len(UpperAlphabet)))]

LowerChar(c) == IF c \in DOMAIN LowerTable THEN LowerTable[c] ELSE c

RECURSIVE Lower(_)
\* str.lower
Lower(s) ==
    IF Len(s) = 0 THEN ""
    ELSE LowerChar(Char(s, 1)) \o Lower(SubSeq(s, 2, Len(s)))

\* Path(p).name: the final path component
PathName(p) == SubSeq(p, RFind(p, "/", Len(p)) + 1, Len(p))

\* Path(p).suffix: the final component's last dot and what follows it,
\* unless the dot is the first or the last character of the component
PathSuffix(p) ==
    LET name == PathName(p)
        i    == RFind(name, ".", Len(name))
    IN  IF 1 < i /\ i < Len(name) THEN SubSeq(name, i, Len(name)) ELSE ""

RECURSIVE PathParts(_)
\* Path(p).parts of a relative path: its components
PathParts(p) ==
    LET i == RFind(p, "/", Len(p))
    IN  IF i = 0 THEN <<p>>
        ELSE Append(PathParts(SubSeq(p, 1, i - 1)), SubSeq(p, i + 1, Len(p)))

\* the elements of a sequence
Range(q) == {q[i] : i \in 1..Len(q)}

\* [x for x in q if x not in drop]
RECURSIVE FilterOut(_, _)
FilterOut(q, drop) ==
    IF q = <<>> THEN <<>>
    ELSE IF Head(q) \in drop THEN FilterOut(Tail(q), drop)
    ELSE <<Head(q)>> \o FilterOut(Tail(q), drop)

(***************************************************************************)
(* The tool-chain registry.  A descriptor (LinterCommand) is a record:     *)
(*   tool  - the name its availability predicate looks up on PATH          *)
(*   cmd   - the executable its command builder returns                    *)
(*   pre   - the arguments the builder puts before the inputs              *)
(*   files - whether the builder appends the inputs                        *)
(*   supports_directories - the descriptor's flag                          *)
(***************************************************************************)
Desc(tool, cmd, pre, dirs) ==
    [tool |-> tool, cmd |-> cmd, pre |-> pre, files |-> TRUE,
     supports_directories |-> dirs]

\* descriptor.command(inputs)
Command(d, inputs) ==
    <<d.cmd, IF d.files THEN d.pre \o inputs ELSE d.pre>>

PrettierCheck == Desc("prettier", "prettier", <<"--check", "--log-level", "error">>, FALSE)
PrettierWrite == Desc("prettier", "prettier", <<"--write", "--log-level", "error">>, TRUE)
Eslint        == Desc("eslint", "eslint", <<"--quiet">>, FALSE)
Tsc           == Desc("tsc", "tsc", <<"--noEmit">>, FALSE)
Shellcheck    == Desc("shellcheck", "shellcheck", <<"-S", "warning">>, FALSE)
BeautyshCheck == Desc("beautysh", "beautysh", <<"--check">>, FALSE)
BeautyshWrite == Desc("beautysh", "beautysh", <<>>, FALSE)
Shfmt         == Desc("shfmt", "shfmt", <<"-w">>, FALSE)
Yamllint      == Desc("yamllint", "yamllint", <<"--quiet">>, FALSE)
TerraformValidate == Desc("terraform", "terraform", <<"validate">>, FALSE)
TerraformFmt  == Desc("terraform", "terraform", <<"fmt">>, FALSE)
Tflint        == Desc("tflint", "tflint", <<"--quiet">>, FALSE)
JustFmt ==
    [tool |-> "just", cmd |-> "just", pre |-> <<"--fmt", "--unstable">>,
     files |-> FALSE, supports_directories |-> FALSE]

ShellLinters == <<Shellcheck, BeautyshCheck>>
ShellFormatters == <<Shfmt, BeautyshWrite>>
YamlLinters == <<Yamllint, PrettierCheck>>
TsLinters == <<Eslint, Tsc, PrettierCheck>>
TerraformLinters == <<TerraformValidate, Tflint>>

LinterExts ==
    {".py", ".js", ".jsx", ".ts", ".tsx", ".json", ".css", ".scss", ".html",
     ".md", ".go", ".rs", ".rb", ".php", ".sh", ".bash", ".zsh", ".yaml",
     ".yml", ".toml", ".tf", ".tfvars", ".github-workflow"}

LINTER_MAP ==
    [ext \in LinterExts |->
      CASE ext = ".py" ->
             <<Desc("ruff", "ruff", <<"check", "--quiet">>, TRUE),
               Desc("uvx", "uvx", <<"ruff", "check", "--quiet">>, TRUE),
               Desc("black", "black", <<"--check", "--quiet">>, FALSE),
               Desc("flake8", "flake8", <<"--quiet">>, FALSE),
               Desc("pylint", "pylint", <<"--quiet">>, FALSE),
               Desc("python", "python", <<"-m", "py_compile">>, FALSE)>>
        [] ext = ".js" ->
             <<Eslint, PrettierCheck, Desc("node", "node", <<"--check">>, FALSE)>>
        [] ext = ".jsx" -> <<Eslint, PrettierCheck>>
        [] ext \in {".ts", ".tsx"} -> TsLinters
        [] ext \in {".json", ".css", ".scss", ".html", ".md"} -> <<PrettierCheck>>
        [] ext = ".go" -> <<Desc("gofmt", "gofmt", <<"-l">>, FALSE)>>
        [] ext = ".rs" -> <<Desc("rustfmt", "rustfmt", <<"--check", "--quiet">>, FALSE)>>
        [] ext = ".rb" -> <<Desc("rubocop", "rubocop", <<"--quiet">>, FALSE)>>
        [] ext = ".php" ->
             <<Desc("php-cs-fixer", "php-cs-fixer", <<"fix", "--dry-run", "--quiet">>, FALSE)>>
        [] ext \in {".sh", ".bash", ".zsh"} -> ShellLinters
        [] ext \in {".yaml", ".yml"} -> YamlLinters
        [] ext = ".toml" -> <<Desc("taplo", "taplo", <<"check">>, FALSE)>>
        [] ext \in {".tf", ".tfvars"} -> TerraformLinters
        [] ext = ".github-workflow" ->
             <<Desc("actionlint", "actionlint", <<"-quiet">>, FALSE),
               Yamllint, PrettierCheck>>]

FormatterExts ==
    {".py", ".js", ".jsx", ".ts", ".tsx", ".json", ".css", ".scss", ".html",
     ".md", ".go", ".rs", ".rb", ".php", ".sh", ".bash", ".zsh", ".yaml",
     ".yml", ".toml", ".tf", ".tfvars", ".github-workflow", "justfile"}

FORMATTER_MAP ==
    [ext \in FormatterExts |->
      CASE ext = ".py" ->
             <<Desc("ruff", "ruff", <<"format", "--quiet">>, TRUE),
               Desc("uvx", "uvx", <<"ruff", "format", "--quiet">>, TRUE),
               Desc("black", "black", <<"--quiet">>, TRUE)>>
        [] ext \in {".js", ".jsx", ".ts", ".tsx", ".json", ".css", ".scss",
                    ".html", ".md", ".yaml", ".yml", ".github-workflow"} ->
             <<PrettierWrite>>
        [] ext = ".go" -> <<Desc("gofmt", "gofmt", <<"-w">>, TRUE)>>
        [] ext = ".rs" -> <<Desc("rustfmt", "rustfmt", <<"--quiet">>, TRUE)>>
        [] ext = ".rb" -> <<Desc("rubocop", "rubocop", <<"-a", "--quiet">>, TRUE)>>
        [] ext = ".php" -> <<Desc("php-cs-fixer", "php-cs-fixer", <<"fix", "--quiet">>, FALSE)>>
        [] ext \in {".sh", ".bash", ".zsh"} -> ShellFormatters
        [] ext = ".toml" -> <<Desc("taplo", "taplo", <<"format">>, FALSE)>>
        [] ext \in {".tf", ".tfvars"} -> <<TerraformFmt>>
        [] ext = "justfile" -> <<JustFmt>>]

(***************************************************************************)
(* The file system the run sees, and directory discovery.                  *)
(***************************************************************************)
RegularFiles ==
    {"a.py", "b.json", "c.css", "x.unknownext", "justfile",
     "src/m.py", "src/vendor/v.py",
     "build/o.py", ".git/config", "format/f.py", "sub/Justfile",
     "vendor/t.py", "conf.yml", "Dockerfile",
     ".github/workflows/ci.yml", ".github/workflows-old/o.yml",
     "proj/k.py", "proj/K.PY", "proj/notes.txt", "proj/Justfile",
     "proj/Justfile.just",
     "proj/node_modules/n.js", "proj/pkg.egg-info/e.py",
     "proj/d.py/i.json", "proj/vendor/w.py", "proj/.github/workflows/r.yaml"}
Directories ==
    {"src", "src/vendor", "build", ".git", "format", "sub", "vendor",
     ".github", ".github/workflows", ".github/workflows-old",
     "proj", "proj/node_modules", "proj/pkg.egg-info", "proj/d.py",
     "proj/vendor", "proj/.github", "proj/.github/workflows"}

\* os.path.exists
Exists(p) == p \in RegularFiles \cup Directories
\* os.path.isdir
IsDir(p) == p \in Directories

RECURSIVE Fnmatch(_, _)
\* fnmatch.fnmatch(s, pat) for patterns made of literals, * and ?
Fnmatch(s, pat) ==
    IF Len(pat) = 0 THEN Len(s) = 0
    ELSE LET c    == Char(pat, 1)
             rest == SubSeq(pat, 2, Len(pat))
         IN  IF c = "*"
             THEN \/ Fnmatch(s, rest)
                  \/ Len(s) > 0 /\ Fnmatch(SubSeq(s, 2, Len(s)), pat)
             ELSE /\ Len(s) > 0
                  /\ c = "?" \/ c = Char(s, 1)
                  /\ Fnmatch(SubSeq(s, 2, Len(s)), rest)

\* should_ignore_file without the loop over file_path.parts
should_ignore_file_no_parts(file_path, ignore_patterns) ==
    \E i \in 1..Len(ignore_patterns) :
        \/ Fnmatch(file_path, ignore_patterns[i])
        \/ Fnmatch(PathName(file_path), ignore_patterns[i])

should_ignore_file(file_path, ignore_patterns) ==
    \E i \in 1..Len(ignore_patterns) :
        LET pattern == ignore_patterns[i]
        IN  \/ Fnmatch(file_path, pattern)
            \/ Fnmatch(PathName(file_path), pattern)
            \/ \E part \in Range(PathParts(file_path)) : Fnmatch(part, pattern)

default_ignore_patterns ==
    <<".git", "node_modules", "__pycache__", ".pytest_cache", "dist", "build",
      ".venv", "venv", ".env", "env", "*.egg-info", ".mypy_cache",
      ".ruff_cache", ".coverage">>

\* the code points of the characters of the modelled paths, in order
CharOrder == "-./0123456789ABCDEFGHIJKLMNOPQRSTUVWXYZ_abcdefghijklmnopqrstuvwxyz"
OrdTable ==
    [c \in {Char(CharOrder, i) : i \in 1..Len(CharOrder)} |->
        RFind(CharOrder, c, Len(CharOrder))]
Ord(c) == OrdTable[c]

RECURSIVE StrLess(_, _)
\* s < t for str
StrLess(s, t) ==
    IF Len(t) = 0 THEN FALSE
    ELSE IF Len(s) = 0 THEN TRUE
    ELSE IF Char(s, 1) = Char(t, 1)
         THEN StrLess(SubSeq(s, 2, Len(s)), SubSeq(t, 2, Len(t)))
         ELSE Ord(Char(s, 1)) < Ord(Char(t, 1))

RECURSIVE Sorted(_)
\* sorted(S) for a collection of distinct strings
Sorted(S) ==
    IF S = {} THEN <<>>
    ELSE LET m == CHOOSE x \in S : \A y \in S \ {x} : StrLess(x, y)
         IN  <<m>> \o Sorted(S \ {m})

\* s.startswith(prefix)
StartsWith(s, prefix) ==
    Len(prefix) <= Len(s) /\ SubSeq(s, 1, Len(prefix)) = prefix

discover_files_in_directory(directory_path, config_ignores) ==
    LET supported_extensions == LinterExts \cup FormatterExts
        all_ignore_patterns  == default_ignore_patterns \o config_ignores
        \* directory.rglob("*")
        entries == {e \in RegularFiles \cup Directories :
                        StartsWith(e, directory_path \o "/")}
        is_supported(f) ==
            \/ Lower(PathSuffix(f)) \in supported_extensions
            \/ Lower(PathName(f)) \in {"justfile", "justfile.just"}
            \/ /\ Lower(PathSuffix(f)) \in {".yml", ".yaml"}
               /\ Contains(f, ".github/workflows", 1)
    IN  Sorted({f \in entries :
                   /\ f \in RegularFiles
                   /\ ~should_ignore_file(f, all_ignore_patterns)
                   /\ is_supported(f)})

(***************************************************************************)
(* Inputs of a run.                                                        *)
(***************************************************************************)
\* the paths a command line is made of
InputPaths == {"a.py", "b.json", "c.css", "x.unknownext", "src"}

RECURSIVE SeqsUpTo(_, _)
\* the sequences over S of length 1..n
SeqsUpTo(S, n) ==
    IF n = 0 THEN {}
    ELSE LET shorter == SeqsUpTo(S, n - 1)
         IN  {<<x>> : x \in S} \cup shorter
               \cup {Append(q, x) : q \in shorter, x \in S}

Modes == {"both", "lint", "format"}

\* the sets of executables PATH may hold
PathChoices ==
    {{}, {"black"}, {"python"}, {"ruff", "prettier", "just"}}

\* the "ignore" list of .taidy.json
IgnoreChoices == {<<>>, <<"vendor/**">>}

\* exit codes an external tool reports
ToolExitCodes == {0, 3}

(***************************************************************************)
(* State.                                                                  *)
(***************************************************************************)
VARIABLES
    files,            \* process_files argument: the command line's paths
    mode,             \* process_files argument
    path_cmds,        \* the executables shutil.which finds
    pc,               \* position of the main thread in process_files
    config_ignores,   \* config.get("ignore", []), once the configuration is read
    input_directories,
    expanded_files,
    file_groups,      \* ordered dict: sequence of [ext, files]
    warnings,         \* what the main thread logged before execution
    next_group,       \* index of the file group the planner handles next
    command_batches,  \* ordered dict: sequence of [sig, files]
    planned,          \* history: the invocations the planner built
    consulted,        \* history: the availability predicates it called
    cache,            \* _command_availability_cache
    cpu_count,        \* os.cpu_count() (0 stands for None) while the pool is
                      \* being set up, -1 before and after
    pool_size,        \* max_workers of the executor, 0 before it exists
    task,             \* per submitted batch: the state of its future
    lock,             \* output_lock: 0 when free, else the holder
    last_write,       \* the latest write to the standard streams: who, what
    results,          \* history: the batches in as_completed order
    exit_code,        \* process_files' exit_code; -1 before it is set
    thread,           \* per thread that calls is_command_available on its
                      \* own: its position in lines 115-119
    lookups           \* history: the shutil.which calls of those threads

inputVars == <<files, mode, path_cmds>>
planVars == <<config_ignores, input_directories, expanded_files, file_groups,
              warnings, next_group, command_batches, planned, consulted, cache>>
execVars == <<cpu_count, pool_size, task, lock, last_write, results, exit_code>>
callVars == <<thread, lookups>>
vars == <<inputVars, pc, planVars, execVars, callVars>>

\* a write to the standard streams
Written(i, kind) == [who |-> i, kind |-> kind]

\* the state when process_files is called with one of the given command
\* lines while PATH holds one of the given sets of executables
InitWith(command_lines, onpaths) ==
    /\ files \in command_lines
    /\ mode \in Modes
    /\ path_cmds \in onpaths
    /\ pc = "expand"
    /\ config_ignores = <<>>
    /\ input_directories = <<>>
    /\ expanded_files = <<>>
    /\ file_groups = <<>>
    /\ warnings = <<>>
    /\ next_group = 1
    /\ command_batches = <<>>
    /\ planned = <<>>
    /\ consulted = {}
    /\ cache = <<>>
    /\ cpu_count = -1
    /\ pool_size = 0
    /\ task = <<>>
    /\ lock = 0
    /\ last_write = Written(0, "none")
    /\ results = <<>>
    /\ exit_code = -1
    /\ thread = <<>>
    /\ lookups = <<>>

InitFrom(command_lines) == InitWith(command_lines, PathChoices)

Init == InitFrom(SeqsUpTo(InputPaths, MaxFiles))

\* command lines with a path that does not exist and with directories in
\* which discovery finds nothing
SkipInputs == {"a.py", "build", ".git", "nope.py"}
InitSkip == InitFrom(SeqsUpTo(SkipInputs, MaxFiles))

\* command lines with justfiles and with a directory whose name is also a
\* fixed argument of a tool
ArgsInputs == {"a.py", "format", "justfile", "sub/Justfile"}
InitArgs == InitWith(SeqsUpTo(ArgsInputs, MaxFiles), {{"ruff"}, {"just"}})

\* command lines over directory trees with ignored, unregistered and
\* specially named files
TreeInputs == {"proj", "vendor", ".github", "conf.yml", "Dockerfile"}
InitTree ==
    InitWith(SeqsUpTo(TreeInputs, MaxFiles), {{"actionlint"}, {"prettier"}, {"just"}})

(***************************************************************************)
(* process_files: expansion of the inputs and grouping by category.        *)
(***************************************************************************)
Warning(kind, subject) == [kind |-> kind, subject |-> subject]

\* discover_files_in_directory over the directories and configurations of the
\* model, evaluated once
Discovered ==
    [d \in Directories, ig \in IgnoreChoices |-> discover_files_in_directory(d, ig)]

RECURSIVE ExpandInputs(_, _)
\* the loop over files: [expanded |-> ..., warnings |-> ...]
ExpandInputs(fs, ignores) ==
    IF fs = <<>> THEN [expanded |-> <<>>, warnings |-> <<>>]
    ELSE LET file_or_dir == Head(fs)
             rest        == ExpandInputs(Tail(fs), ignores)
             discovered  == Discovered[file_or_dir, ignores]
         IN  IF ~Exists(file_or_dir)
             THEN [expanded |-> rest.expanded,
                   warnings |-> <<Warning("missing_path", file_or_dir)>> \o rest.warnings]
             ELSE IF IsDir(file_or_dir)
             THEN IF discovered # <<>>
                  THEN [expanded |-> discovered \o rest.expanded,
                        warnings |-> rest.warnings]
                  ELSE [expanded |-> rest.expanded,
                        warnings |-> <<Warning("empty_directory", file_or_dir)>> \o rest.warnings]
             ELSE [expanded |-> <<file_or_dir>> \o rest.expanded,
                   warnings |-> rest.warnings]

\* MappedExt by the suffix alone, but for workflow files
MappedExtBySuffix(file) ==
    LET ext == Lower(PathSuffix(file))
    IN  IF ext \in {".yml", ".yaml"} /\ Contains(file, ".github/workflows", 1)
        THEN ".github-workflow"
        ELSE ext

\* the category key of a file (mapped_ext)
MappedExt(file) ==
    LET ext == Lower(PathSuffix(file))
        special == IF Lower(PathName(file)) \in {"justfile", "justfile.just"}
                   THEN "justfile" ELSE ext
    IN  IF ext \in {".yml", ".yaml"} /\ Contains(file, ".github/workflows", 1)
        THEN ".github-workflow"
        ELSE special

\* HasConfig accepting every category
HasConfigAlways(mapped_ext, m) == TRUE

\* process_files, lines 915-922: is there a chain for the category in this mode
HasConfig(mapped_ext, m) ==
    CASE m = "lint"   -> mapped_ext \in LinterExts
      [] m = "format" -> mapped_ext \in FormatterExts
      [] OTHER        -> mapped_ext \in LinterExts \cup FormatterExts

\* file_groups[ext].append(file) on an insertion-ordered dict
AddToGroup(groups, ext, file) ==
    IF \E i \in 1..Len(groups) : groups[i].ext = ext
    THEN [i \in 1..Len(groups) |->
            IF groups[i].ext = ext
            THEN [groups[i] EXCEPT !.files = Append(@, file)]
            ELSE groups[i]]
    ELSE Append(groups, [ext |-> ext, files |-> <<file>>])

RECURSIVE GroupFiles(_, _, _, _)
\* the loop over expanded_files: [groups |-> ..., warnings |-> ...]
GroupFiles(fs, m, groups, warns) ==
    IF fs = <<>> THEN [groups |-> groups, warnings |-> warns]
    ELSE LET file == Head(fs)
             mapped_ext == MappedExt(file)
         IN  IF HasConfig(mapped_ext, m)
             THEN GroupFiles(Tail(fs), m, AddToGroup(groups, mapped_ext, file), warns)
             ELSE GroupFiles(Tail(fs), m, groups,
                             Append(warns, Warning("no_linter_configured", file)))

\* process_files, lines 872-895; load_config reads the "ignore" list
Expand ==
    /\ pc = "expand"
    /\ \E ignore \in IgnoreChoices :
          LET r == ExpandInputs(files, ignore)
          IN  /\ config_ignores' = ignore
              /\ expanded_files' = r.expanded
              /\ warnings' = r.warnings
    /\ input_directories' = SelectSeq(files, LAMBDA f : IsDir(f) /\ Exists(f))
    /\ pc' = "group"
    /\ UNCHANGED <<callVars, inputVars, file_groups, next_group, command_batches,
                   planned, consulted, cache, execVars>>

\* Group without the early return of lines 931-934
GroupNoEarlyReturn ==
    /\ pc = "group"
    /\ LET r == GroupFiles(expanded_files, mode, <<>>, warnings)
       IN  /\ file_groups' = r.groups
           /\ warnings' = r.warnings
    /\ pc' = "plan"
    /\ UNCHANGED <<callVars, inputVars, config_ignores, input_directories, expanded_files,
                   next_group, command_batches, planned, consulted, cache, execVars>>

\* process_files, lines 897-934
Group ==
    /\ pc = "group"
    /\ LET r == GroupFiles(expanded_files, mode, <<>>, warnings)
       IN  /\ file_groups' = r.groups
           /\ warnings' = r.warnings
           /\ IF r.groups = <<>>
              THEN pc' = "done" /\ exit_code' = 0
              ELSE pc' = "plan" /\ exit_code' = exit_code
    /\ UNCHANGED <<callVars, inputVars, config_ignores, input_directories, expanded_files,
                   next_group, command_batches, planned, consulted, cache,
                   cpu_count, pool_size, task, lock, last_write, results>>

(***************************************************************************)
(* process_files: the batch planner.                                       *)
(***************************************************************************)
\* is_command_available(cmd): [value |-> ..., cache |-> ...]
is_command_available(cmd, c, onpath) ==
    LET c2 == IF cmd \in DOMAIN c THEN c ELSE c @@ (cmd :> (cmd \in onpath))
    IN  [value |-> c2[cmd], cache |-> c2]

RECURSIVE WalkChainAskAll(_, _, _, _)
\* WalkChain without the break: every predicate of the chain is called
WalkChainAskAll(chain, i, c, onpath) ==
    IF i > Len(chain) THEN [sel |-> 0, asked |-> {}, cache |-> c]
    ELSE LET a == is_command_available(chain[i].tool, c, onpath)
             r == WalkChainAskAll(chain, i + 1, a.cache, onpath)
         IN  [sel   |-> IF a.value THEN i ELSE r.sel,
              asked |-> r.asked \cup {i},
              cache |-> r.cache]

RECURSIVE WalkChain(_, _, _, _)
\* `for linter_cmd in chain: if linter_cmd.available(): ...; break`, from
\* position i: the selected position (0 when none), the positions whose
\* predicate was called, and the cache afterwards
WalkChain(chain, i, c, onpath) ==
    IF i > Len(chain) THEN [sel |-> 0, asked |-> {}, cache |-> c]
    ELSE LET a == is_command_available(chain[i].tool, c, onpath)
         IN  IF a.value
             THEN [sel |-> i, asked |-> {i}, cache |-> a.cache]
             ELSE LET r == WalkChain(chain, i + 1, a.cache, onpath)
                  IN  [r EXCEPT !.asked = @ \cup {i}]

\* the inputs handed to a selected descriptor
\* ChooseInputs without the test of has_custom_ignores
ChooseInputsDespiteIgnores(d, file_list, dirs, has_custom_ignores) ==
    IF dirs # <<>> /\ d.supports_directories
    THEN dirs
    ELSE file_list

ChooseInputs(d, file_list, dirs, has_custom_ignores) ==
    IF dirs # <<>> /\ ~has_custom_ignores /\ d.supports_directories
    THEN dirs
    ELSE file_list

\* the signature of an invocation: the arguments that are no input
Signature(d, inputs) ==
    LET built == Command(d, inputs)
    IN  <<built[1], FilterOut(built[2], Range(inputs))>>

\* AddToBatch without the lookup of the signature: one entry per invocation
AddToBatchNoMerge(batches, sig, inputs) ==
    Append(batches, [sig |-> sig, files |-> inputs])

\* command_batches[cmd_signature].extend(inputs) on an insertion-ordered dict
AddToBatch(batches, sig, inputs) ==
    IF \E i \in 1..Len(batches) : batches[i].sig = sig
    THEN [i \in 1..Len(batches) |->
            IF batches[i].sig = sig
            THEN [batches[i] EXCEPT !.files = @ \o inputs]
            ELSE batches[i]]
    ELSE Append(batches, [sig |-> sig, files |-> inputs])

\* one (category, operation) pair of the planner, from the state st =
\* [batches, planned, consulted, cache]
PlanOperation(st, ext, op, chain, file_list, dirs, has_custom_ignores, onpath) ==
    LET w == WalkChain(chain, 1, st.cache, onpath)
        asked == {<<ext, op, i>> : i \in w.asked}
    IN  IF w.sel = 0
        THEN [st EXCEPT !.consulted = @ \cup asked, !.cache = w.cache]
        ELSE LET d      == chain[w.sel]
                 inputs == ChooseInputs(d, file_list, dirs, has_custom_ignores)
                 sig    == Signature(d, inputs)
             IN  [batches   |-> AddToBatch(st.batches, sig, inputs),
                  planned   |-> Append(st.planned,
                                   [ext |-> ext, op |-> op, sel |-> w.sel,
                                    sig |-> sig, inputs |-> inputs]),
                  consulted |-> st.consulted \cup asked,
                  cache     |-> w.cache]

\* PlanCategory using both registries whatever the mode
PlanCategoryAnyMode ==
    /\ pc = "plan"
    /\ next_group <= Len(file_groups)
    /\ LET g   == file_groups[next_group]
           has_custom_ignores == Len(config_ignores) > 0
           st0 == [batches |-> command_batches, planned |-> planned,
                   consulted |-> consulted, cache |-> cache]
           st1 == IF g.ext \in LinterExts
                  THEN PlanOperation(st0, g.ext, "lint", LINTER_MAP[g.ext], g.files,
                                     input_directories, has_custom_ignores, path_cmds)
                  ELSE st0
           st2 == IF g.ext \in FormatterExts
                  THEN PlanOperation(st1, g.ext, "format", FORMATTER_MAP[g.ext], g.files,
                                     input_directories, has_custom_ignores, path_cmds)
                  ELSE st1
       IN  /\ command_batches' = st2.batches
           /\ planned' = st2.planned
           /\ consulted' = st2.consulted
           /\ cache' = st2.cache
    /\ next_group' = next_group + 1
    /\ UNCHANGED <<callVars, inputVars, pc, config_ignores, input_directories,
                   expanded_files, file_groups, warnings, execVars>>

\* process_files, lines 940-985: one iteration of the loop over file_groups
PlanCategory ==
    /\ pc = "plan"
    /\ next_group <= Len(file_groups)
    /\ LET g   == file_groups[next_group]
           has_custom_ignores == Len(config_ignores) > 0
           st0 == [batches |-> command_batches, planned |-> planned,
                   consulted |-> consulted, cache |-> cache]
           st1 == IF mode \in {"lint", "both"} /\ g.ext \in LinterExts
                  THEN PlanOperation(st0, g.ext, "lint", LINTER_MAP[g.ext], g.files,
                                     input_directories, has_custom_ignores, path_cmds)
                  ELSE st0
           st2 == IF mode \in {"format", "both"} /\ g.ext \in FormatterExts
                  THEN PlanOperation(st1, g.ext, "format", FORMATTER_MAP[g.ext], g.files,
                                     input_directories, has_custom_ignores, path_cmds)
                  ELSE st1
       IN  /\ command_batches' = st2.batches
           /\ planned' = st2.planned
           /\ consulted' = st2.consulted
           /\ cache' = st2.cache
    /\ next_group' = next_group + 1
    /\ UNCHANGED <<callVars, inputVars, pc, config_ignores, input_directories,
                   expanded_files, file_groups, warnings, execVars>>

(***************************************************************************)
(* process_files: the worker pool and the aggregation of the results.      *)
(***************************************************************************)
Min(a, b) == IF a <= b THEN a ELSE b

\* max_workers=min(len(command_batches), os.cpu_count() or 1)
MaxWorkers(batches, cpus) == Min(batches, IF cpus = 0 THEN 1 ELSE cpus)

\* a future: the position of its worker in execute_batched_command (st), the
\* return code of the process or of the call (-1 before there is one),
\* whether its trace line has been written, and how many times
\* subprocess.run was called for it
QueuedTask == [st |-> "queued", code |-> -1, traced |-> FALSE, spawns |-> 0]

\* The arguments and the locals of the planning phase are not read again
\* once the plan is complete: the model forgets them, so that runs with the
\* same plan share their executions.
ForgetPlanning ==
    /\ files' = <<>>
    /\ mode' = "-"
    /\ config_ignores' = <<>>
    /\ input_directories' = <<>>
    /\ expanded_files' = <<>>
    /\ file_groups' = <<>>
    /\ warnings' = <<>>
    /\ next_group' = 0
    /\ consulted' = {}

\* process_files, lines 987-991: ThreadPoolExecutor raises ValueError when
\* max_workers <= 0, and nothing catches it
CreatePool ==
    /\ pc = "plan"
    /\ next_group > Len(file_groups)
    /\ Len(command_batches) <= MaxBatches
    /\ \E cpus \in 0..MaxCpu :
          LET n == MaxWorkers(Len(command_batches), cpus)
          IN  /\ cpu_count' = cpus
              /\ IF n <= 0
                 THEN pc' = "raised" /\ pool_size' = pool_size
                 ELSE pc' = "submit" /\ pool_size' = n
    /\ exit_code' = 0
    /\ ForgetPlanning
    /\ UNCHANGED <<callVars, path_cmds, command_batches, planned, cache,
                   task, lock, last_write, results>>

\* process_files, lines 993-1000: executor.submit of every batch
Submit ==
    /\ pc = "submit"
    /\ task' = [i \in 1..Len(command_batches) |-> QueuedTask]
    /\ pc' = "collect"
    /\ cpu_count' = -1
    /\ UNCHANGED <<callVars, inputVars, planVars, pool_size, lock, last_write, results, exit_code>>

Tasks == 1..Len(task)

\* the batches a worker thread is executing
Busy == {i \in Tasks : task[i].st \notin {"queued", "done"}}

\* the batches whose external process is running
Spawned == {i \in Tasks : task[i].st = "running"}

\* unique_files of execute_batched_command
RECURSIVE Dedup(_, _)
Dedup(q, seen) ==
    IF q = <<>> THEN <<>>
    ELSE IF Head(q) \in seen THEN Dedup(Tail(q), seen)
    ELSE <<Head(q)>> \o Dedup(Tail(q), seen \cup {Head(q)})

\* BatchArgs without the special case of line 758
BatchArgsAlwaysAppend(batch) ==
    batch.sig[2] \o Dedup(batch.files, {})

\* the argument vector execute_batched_command passes to subprocess.run
BatchArgs(batch) ==
    LET cmd       == batch.sig[1]
        base_args == batch.sig[2]
    IN  IF cmd = "just" /\ "--fmt" \in Range(base_args)
        THEN base_args
        ELSE base_args \o Dedup(batch.files, {})

\* Start going straight to subprocess.run, without the trace line
StartNoTrace(i) ==
    /\ task[i].st = "queued"
    /\ \A j \in 1..(i - 1) : task[j].st # "queued"
    /\ Cardinality(Busy) < pool_size
    /\ task' = [task EXCEPT ![i].st = "spawn"]
    /\ UNCHANGED <<callVars, inputVars, pc, planVars, cpu_count, pool_size, lock, last_write, results, exit_code>>

\* a worker thread takes the oldest queued work item
Start(i) ==
    /\ task[i].st = "queued"
    /\ \A j \in 1..(i - 1) : task[j].st # "queued"
    /\ Cardinality(Busy) < pool_size
    /\ task' = [task EXCEPT ![i].st = "trace"]
    /\ UNCHANGED <<callVars, inputVars, pc, planVars, cpu_count, pool_size, lock, last_write, results, exit_code>>

\* Trace writing its line without taking output_lock
TraceNoLock(i) ==
    /\ task[i].st = "trace"
    /\ last_write' = Written(i, "trace")
    /\ task' = [task EXCEPT ![i].st = "spawn", ![i].traced = TRUE]
    /\ UNCHANGED <<callVars, inputVars, pc, planVars, cpu_count, pool_size, lock, results, exit_code>>

\* execute_batched_command, lines 765-766: the trace line, written in a
\* critical section of its own (acquire, logger.info, release)
Trace(i) ==
    /\ task[i].st = "trace"
    /\ lock = 0
    /\ last_write' = Written(i, "trace")
    /\ task' = [task EXCEPT ![i].st = "spawn", ![i].traced = TRUE]
    /\ UNCHANGED <<callVars, inputVars, pc, planVars, cpu_count, pool_size, lock, results, exit_code>>

\* execute_batched_command, line 769: subprocess.run starts the process
SpawnOk(i) ==
    /\ task[i].st = "spawn"
    /\ task' = [task EXCEPT ![i].st = "running", ![i].spawns = @ + 1]
    /\ UNCHANGED <<callVars, inputVars, pc, planVars, cpu_count, pool_size, lock, last_write, results, exit_code>>

\* line 779: subprocess.run raises FileNotFoundError
SpawnNotFound(i) ==
    /\ task[i].st = "spawn"
    /\ task' = [task EXCEPT ![i].st = "failed", ![i].code = 127, ![i].spawns = @ + 1]
    /\ UNCHANGED <<callVars, inputVars, pc, planVars, cpu_count, pool_size, lock, last_write, results, exit_code>>

\* line 783: subprocess.run raises another exception
SpawnError(i) ==
    /\ task[i].st = "spawn"
    /\ task' = [task EXCEPT ![i].st = "failed", ![i].code = 1, ![i].spawns = @ + 1]
    /\ UNCHANGED <<callVars, inputVars, pc, planVars, cpu_count, pool_size, lock, last_write, results, exit_code>>

\* ProcessExit calling subprocess.run again after a non-zero exit
ProcessExitRetry(i) ==
    /\ task[i].st = "running"
    /\ \E c \in ToolExitCodes :
          task' = [task EXCEPT ![i].st = IF c = 0 \/ task[i].spawns > 1
                                         THEN "captured" ELSE "spawn",
                               ![i].code = c]
    /\ UNCHANGED <<callVars, inputVars, pc, planVars, cpu_count, pool_size, lock, last_write, results, exit_code>>

\* line 769: the external process terminates; its streams were captured
ProcessExit(i) ==
    /\ task[i].st = "running"
    /\ \E c \in ToolExitCodes :
          task' = [task EXCEPT ![i].st = "captured", ![i].code = c]
    /\ UNCHANGED <<callVars, inputVars, pc, planVars, cpu_count, pool_size, lock, last_write, results, exit_code>>

\* lines 772-774: with output_lock, and the captured stdout is written when
\* it is not empty
WriteStdout(i) ==
    /\ task[i].st = "captured"
    /\ lock = 0
    /\ lock' = i
    /\ \E nonempty \in BOOLEAN :
          last_write' = IF nonempty THEN Written(i, "stdout") ELSE last_write
    /\ task' = [task EXCEPT ![i].st = "stderr"]
    /\ UNCHANGED <<callVars, inputVars, pc, planVars, cpu_count, pool_size, results, exit_code>>

\* WriteStderr returning without releasing output_lock
WriteStderrKeepLock(i) ==
    /\ task[i].st = "stderr"
    /\ \E nonempty \in BOOLEAN :
          last_write' = IF nonempty THEN Written(i, "stderr") ELSE last_write
    /\ task' = [task EXCEPT ![i].st = "done"]
    /\ UNCHANGED <<callVars, inputVars, pc, planVars, cpu_count, pool_size, lock, results, exit_code>>

\* lines 775-778: the second write, the release and the return
WriteStderr(i) ==
    /\ task[i].st = "stderr"
    /\ \E nonempty \in BOOLEAN :
          last_write' = IF nonempty THEN Written(i, "stderr") ELSE last_write
    /\ lock' = 0
    /\ task' = [task EXCEPT ![i].st = "done"]
    /\ UNCHANGED <<callVars, inputVars, pc, planVars, cpu_count, pool_size, results, exit_code>>

\* lines 780-782 and 784-786: the error line, written in a critical section
\* of its own, and the return
ReportError(i) ==
    /\ task[i].st = "failed"
    /\ lock = 0
    /\ last_write' = Written(i, "error")
    /\ task' = [task EXCEPT ![i].st = "done"]
    /\ UNCHANGED <<callVars, inputVars, pc, planVars, cpu_count, pool_size, lock, results, exit_code>>

Collected == Range(results)

\* Collect keeping the largest exit code
CollectMax(i) ==
    /\ pc = "collect"
    /\ task[i].st = "done"
    /\ i \notin Collected
    /\ results' = Append(results, i)
    /\ exit_code' = IF task[i].code > exit_code THEN task[i].code ELSE exit_code
    /\ UNCHANGED <<callVars, inputVars, pc, planVars, cpu_count, pool_size, task, lock, last_write>>

\* Collect giving up at the first failed invocation
CollectAbort(i) ==
    /\ pc = "collect"
    /\ task[i].st = "done"
    /\ i \notin Collected
    /\ results' = Append(results, i)
    /\ exit_code' = IF task[i].code # 0 THEN task[i].code ELSE exit_code
    /\ pc' = IF task[i].code # 0 THEN "done" ELSE pc
    /\ UNCHANGED <<callVars, inputVars, planVars, cpu_count, pool_size, task, lock, last_write>>

\* process_files, lines 1003-1008: as_completed yields a finished future
Collect(i) ==
    /\ pc = "collect"
    /\ task[i].st = "done"
    /\ i \notin Collected
    /\ results' = Append(results, i)
    /\ exit_code' = IF task[i].code # 0 THEN task[i].code ELSE exit_code
    /\ UNCHANGED <<callVars, inputVars, pc, planVars, cpu_count, pool_size, task, lock, last_write>>

\* Return without waiting for the futures that are still pending
ReturnEarly ==
    /\ pc = "collect"
    /\ pc' = "done"
    /\ UNCHANGED <<callVars, inputVars, planVars, execVars>>

\* process_files, line 1014, after the executor has shut down
Return ==
    /\ pc = "collect"
    /\ Collected = Tasks
    /\ pc' = "done"
    /\ UNCHANGED <<callVars, inputVars, planVars, execVars>>

Worker(i) ==
    \/ Start(i)
    \/ Trace(i)
    \/ SpawnOk(i)
    \/ SpawnNotFound(i)
    \/ SpawnError(i)
    \/ ProcessExit(i)
    \/ WriteStdout(i)
    \/ WriteStderr(i)
    \/ ReportError(i)

Next ==
    \/ Expand
    \/ Group
    \/ PlanCategory
    \/ CreatePool
    \/ Submit
    \/ \E i \in Tasks : Worker(i)
    \/ \E i \in Tasks : Collect(i)
    \/ Return

Spec == Init /\ [][Next]_vars

SpecSkip == InitSkip /\ [][Next]_vars

SpecArgs == InitArgs /\ [][Next]_vars

SpecTree == InitTree /\ [][Next]_vars

\* how the interpreter ends when KeyboardInterrupt leaves main uncaught:
\* with a traceback and status 1, or killed by SIGINT
InterruptOutcomes == {"exit_1", "killed_by_SIGINT"}

\* the operator interrupts the run: KeyboardInterrupt is raised in the main
\* thread, which is in process_files, lines 936-1012.  No except clause of
\* process_files or main catches it (line 1009 catches Exception only), so
\* process_files does not return and line 1312 is not reached; the worker
\* threads run on until the executor has shut down.
Interrupt ==
    /\ pc \in {"plan", "submit", "collect"}
    /\ pc' \in InterruptOutcomes
    /\ UNCHANGED <<callVars, inputVars, planVars, execVars>>

NextInterrupt == Next \/ Interrupt

InitInterrupt == InitFrom(SeqsUpTo({"a.py", "b.json"}, MaxFiles))

SpecInterrupt == InitInterrupt /\ [][NextInterrupt]_vars

InitLive == InitWith(SeqsUpTo({"a.py", "b.json"}, MaxFiles), {{"ruff", "prettier"}})

\* a step of the execution phase (lines 991-1014) other than the termination
\* of the first batch's external process
Progress ==
    \/ Submit \/ Return
    \/ \E i \in Tasks :
          \/ Start(i) \/ Trace(i)
          \/ SpawnOk(i) \/ SpawnNotFound(i) \/ SpawnError(i)
          \/ i # 1 /\ ProcessExit(i)
          \/ WriteStdout(i) \/ WriteStderr(i) \/ ReportError(i)
          \/ Collect(i)

\* The main thread and the worker threads are scheduled, and output_lock is
\* held for two writes only: while the execution phase can take a step, it
\* takes one.  subprocess.run, line 769, has no timeout: the call returns when the
\* external process terminates, which nothing in the program brings about.
\* The processes of the batches after the first are assumed to terminate;
\* the process of the first batch may run for ever.
SpecLive == InitLive /\ [][Next]_vars /\ WF_vars(Progress)

(***************************************************************************)
(* is_command_available, lines 115-119, step by step: threads that call    *)
(* the function on their own, while the tools on PATH come and go.         *)
(***************************************************************************)
ToolNames == {"ruff", "black"}

\* a thread that has not called the function yet
IdleThread == [at |-> "idle", name |-> "", found |-> FALSE, result |-> FALSE, calls |-> 0]

Threads == DOMAIN thread

RECURSIVE CallsOf(_)
\* the number of calls the threads have made
CallsOf(th) == IF th = <<>> THEN 0 ELSE Head(th).calls + CallsOf(Tail(th))

\* a thread calls is_command_available(name)
Call(t) ==
    /\ thread[t].at \in {"idle", "returned"}
    /\ CallsOf(thread) < MaxCalls
    /\ \E name \in ToolNames :
          thread' = [thread EXCEPT ![t].at = "test", ![t].name = name,
                                   ![t].calls = @ + 1]
    /\ UNCHANGED <<inputVars, pc, planVars, execVars, lookups>>

\* TestCache taking every name for a new one
TestCacheAlwaysMiss(t) ==
    /\ thread[t].at = "test"
    /\ thread' = [thread EXCEPT ![t].at = "which"]
    /\ UNCHANGED <<inputVars, pc, planVars, execVars, lookups>>

\* line 117: if cmd not in _command_availability_cache
TestCache(t) ==
    /\ thread[t].at = "test"
    /\ thread' = [thread EXCEPT ![t].at = IF thread[t].name \in DOMAIN cache
                                           THEN "return" ELSE "which"]
    /\ UNCHANGED <<inputVars, pc, planVars, execVars, lookups>>

\* line 118, right-hand side: shutil.which(cmd) is not None
Which(t) ==
    /\ thread[t].at = "which"
    /\ LET found == thread[t].name \in path_cmds
       IN  /\ thread' = [thread EXCEPT ![t].at = "store", ![t].found = found]
           /\ lookups' = Append(lookups, [name |-> thread[t].name, found |-> found])
    /\ UNCHANGED <<inputVars, pc, planVars, execVars>>

\* line 118, the assignment to the dict entry; the looked-up value is not
\* read again
Store(t) ==
    /\ thread[t].at = "store"
    /\ cache' = (thread[t].name :> thread[t].found) @@ cache
    /\ thread' = [thread EXCEPT ![t].at = "return", ![t].found = FALSE]
    /\ UNCHANGED <<inputVars, pc, config_ignores, input_directories, expanded_files,
                   file_groups, warnings, next_group, command_batches, planned,
                   consulted, execVars, lookups>>

\* ReturnCached looking the tool up again instead of reading the cache
ReturnFresh(t) ==
    /\ thread[t].at = "return"
    /\ thread' = [thread EXCEPT ![t].at = "returned",
                                ![t].result = thread[t].name \in path_cmds]
    /\ UNCHANGED <<inputVars, pc, planVars, execVars, lookups>>

\* line 119: return _command_availability_cache[cmd]
ReturnCached(t) ==
    /\ thread[t].at = "return"
    /\ thread' = [thread EXCEPT ![t].at = "returned",
                                ![t].result = cache[thread[t].name]]
    /\ UNCHANGED <<inputVars, pc, planVars, execVars, lookups>>

\* a tool is installed or removed while the program runs
PathChanges ==
    /\ thread # <<>>
    /\ \E name \in ToolNames :
          path_cmds' = IF name \in path_cmds THEN path_cmds \ {name}
                                              ELSE path_cmds \cup {name}
    /\ UNCHANGED <<files, mode, pc, planVars, execVars, callVars>>

NextCalls ==
    \/ \E t \in Threads : Call(t)
    \/ \E t \in Threads : TestCache(t)
    \/ \E t \in Threads : Which(t)
    \/ \E t \in Threads : Store(t)
    \/ \E t \in Threads : ReturnCached(t)
    \/ PathChanges

\* n threads, an empty cache, and the planner at rest
InitCalls(n) ==
    /\ files = <<>>
    /\ mode = "-"
    /\ path_cmds \in SUBSET ToolNames
    /\ pc = "-"
    /\ config_ignores = <<>>
    /\ input_directories = <<>>
    /\ expanded_files = <<>>
    /\ file_groups = <<>>
    /\ warnings = <<>>
    /\ next_group = 0
    /\ command_batches = <<>>
    /\ planned = <<>>
    /\ consulted = {}
    /\ cache = <<>>
    /\ cpu_count = -1
    /\ pool_size = 0
    /\ task = <<>>
    /\ lock = 0
    /\ last_write = Written(0, "none")
    /\ results = <<>>
    /\ exit_code = -1
    /\ thread = [t \in 1..n |-> IdleThread]
    /\ lookups = <<>>

\* the program as it is: the planner is the only caller
SpecCache == InitCalls(1) /\ [][NextCalls]_vars

\* several threads call the function
SpecRace == InitCalls(MaxThreads) /\ [][NextCalls]_vars

(***************************************************************************)
(* The non-batched variant: execute_linters and process_file_group, lines  *)
(* 789-867.  No line of the program calls them.                            *)
(***************************************************************************)
GroupExitCodes == {0, 1, 2, 3}

\* how subprocess.run ends in execute_linters: the process exits with a
\* code, or the call raises
Outcomes ==
    {[kind |-> "exit", code |-> c] : c \in GroupExitCodes}
        \cup {[kind |-> "not_found", code |-> 127], [kind |-> "error", code |-> 1]}

\* execute_linters(commands, file_list): the return value, the descriptor
\* that ran (0 when none is available), whether subprocess.run was called
execute_linters(commands, c, onpath, outcome) ==
    LET w == WalkChain(commands, 1, c, onpath)
    IN  IF w.sel = 0
        THEN [code |-> 2, sel |-> 0, spawns |-> 0, cache |-> w.cache]
        ELSE [code |-> outcome.code, sel |-> w.sel, spawns |-> 1, cache |-> w.cache]

RECURSIVE FirstDirectoryTool(_, _, _, _)
\* process_file_group, lines 837-840: the loop that looks for an available
\* descriptor that supports directories
FirstDirectoryTool(chain, i, c, onpath) ==
    IF i > Len(chain) THEN [found |-> FALSE, cache |-> c]
    ELSE LET a == is_command_available(chain[i].tool, c, onpath)
         IN  IF a.value /\ chain[i].supports_directories
             THEN [found |-> TRUE, cache |-> a.cache]
             ELSE FirstDirectoryTool(chain, i + 1, a.cache, onpath)

\* one half of process_file_group: the choice of the inputs, the call of
\* execute_linters and what is made of its return value
GroupHalf(op, chain, outcome) ==
    LET g      == file_groups[1]
        try    == input_directories # <<>> /\ Len(config_ignores) = 0
        pre    == IF try THEN FirstDirectoryTool(chain, 1, cache, path_cmds)
                         ELSE [found |-> FALSE, cache |-> cache]
        inputs == IF pre.found THEN input_directories ELSE g.files
        r      == execute_linters(chain, pre.cache, path_cmds, outcome)
    IN  /\ cache' = r.cache
        /\ task' = Append(task, [st |-> "done", code |-> r.code,
                                 traced |-> r.spawns = 1, spawns |-> r.spawns])
        /\ planned' = IF r.sel = 0 THEN planned
                       ELSE Append(planned,
                                [ext |-> g.ext, op |-> op, sel |-> r.sel,
                                 sig |-> Signature(chain[r.sel], inputs),
                                 inputs |-> inputs])
        /\ warnings' = IF r.code = 2
                        THEN Append(warnings, Warning("no_available", <<g.ext, op>>))
                        ELSE warnings
        /\ exit_code' = IF r.code \notin {0, 2} THEN r.code ELSE exit_code

\* process_file_group, lines 831-847
GroupLint ==
    /\ pc = "lint_half"
    /\ IF mode \in {"lint", "both"} /\ file_groups[1].ext \in LinterExts
       THEN \E outcome \in Outcomes :
               GroupHalf("lint", LINTER_MAP[file_groups[1].ext], outcome)
       ELSE UNCHANGED <<cache, task, planned, warnings, exit_code>>
    /\ pc' = "format_half"
    /\ UNCHANGED <<callVars, inputVars, config_ignores, input_directories,
                   expanded_files, file_groups, next_group, command_batches,
                   consulted, cpu_count, pool_size, lock, last_write, results>>

\* process_file_group, lines 849-867
GroupFormat ==
    /\ pc = "format_half"
    /\ IF mode \in {"format", "both"} /\ file_groups[1].ext \in FormatterExts
       THEN \E outcome \in Outcomes :
               GroupHalf("format", FORMATTER_MAP[file_groups[1].ext], outcome)
       ELSE UNCHANGED <<cache, task, planned, warnings, exit_code>>
    /\ pc' = "returned"
    /\ UNCHANGED <<callVars, inputVars, config_ignores, input_directories,
                   expanded_files, file_groups, next_group, command_batches,
                   consulted, cpu_count, pool_size, lock, last_write, results>>

NextGroup == GroupLint \/ GroupFormat

\* the arguments of process_file_group
GroupChoices ==
    {[ext |-> ".py", files |-> <<"a.py">>],
     [ext |-> ".json", files |-> <<"b.json">>],
     [ext |-> "justfile", files |-> <<"justfile">>]}

InitGroup ==
    /\ files = <<>>
    /\ mode \in Modes
    /\ path_cmds \in PathChoices
    /\ pc = "lint_half"
    /\ config_ignores \in IgnoreChoices
    /\ input_directories \in {<<>>, <<"src">>}
    /\ expanded_files = <<>>
    /\ file_groups \in {<<g>> : g \in GroupChoices}
    /\ warnings = <<>>
    /\ next_group = 0
    /\ command_batches = <<>>
    /\ planned = <<>>
    /\ consulted = {}
    /\ cache = <<>>
    /\ cpu_count = -1
    /\ pool_size = 0
    /\ task = <<>>
    /\ lock = 0
    /\ last_write = Written(0, "none")
    /\ results = <<>>
    /\ exit_code = 0
    /\ thread = <<>>
    /\ lookups = <<>>

SpecGroup == InitGroup /\ [][NextGroup]_vars

(***************************************************************************)
(* Properties.                                                             *)
(***************************************************************************)
Chain(op, ext) == IF op = "lint" THEN LINTER_MAP[ext] ELSE FORMATTER_MAP[ext]

\* the planner has handled every file group; its locals are still in scope
PlanComplete == pc = "plan" /\ next_group > Len(file_groups)

\* the exit codes of the invocations in the order as_completed yielded them
ResultCodes == [k \in 1..Len(results) |-> task[results[k]].code]

RECURSIVE LastNonZero(_)
\* the last non-zero element of a sequence of exit codes, 0 when there is none
LastNonZero(codes) ==
    IF codes = <<>> THEN 0
    ELSE IF codes[Len(codes)] # 0 THEN codes[Len(codes)]
    ELSE LastNonZero(SubSeq(codes, 1, Len(codes) - 1))

\* C1: the exit code of process_files is the last non-zero exit code in
\* completion order, and 0 exactly when every collected invocation returned 0;
\* when process_files returns, every submitted invocation has been collected.
C1_ExitCodeIsLastNonZero ==
    pc \in {"collect", "done"} =>
        /\ exit_code = LastNonZero(ResultCodes)
        /\ exit_code = 0 <=> \A k \in 1..Len(results) : ResultCodes[k] = 0
        /\ pc = "done" => Collected = Tasks

\* a run that returned after a 127 was collected first and a 3 after it
C1_Witness ==
    /\ pc = "done"
    /\ ResultCodes = <<127, 3>>
    /\ exit_code = 3

\* C2: a (category, operation) pair without an available tool never makes
\* process_files fail: the run is not aborted by an exception.
C2_MissingToolIsNonFatal == pc # "raised"

\* C3: every planned invocation is built from the first descriptor of its
\* chain whose tool is on PATH, and the availability predicates called for
\* that (category, operation) pair are exactly those up to the selected one.
C3_FirstAvailableIsSelected ==
    pc = "plan" =>
        \A k \in 1..Len(planned) :
            LET e     == planned[k]
                chain == Chain(e.op, e.ext)
            IN  /\ e.sel \in 1..Len(chain)
                /\ chain[e.sel].tool \in path_cmds
                /\ \A i \in 1..(e.sel - 1) : chain[i].tool \notin path_cmds
                /\ \A i \in 1..Len(chain) :
                      <<e.ext, e.op, i>> \in consulted <=> i <= e.sel
                /\ e.sig[1] = chain[e.sel].cmd
                /\ \E b \in Range(command_batches) :
                      b.sig = e.sig /\ Range(e.inputs) \subseteq Range(b.files)

\* a chain whose third descriptor was selected while later ones exist
C3_Witness ==
    /\ pc = "plan"
    /\ \E k \in 1..Len(planned) :
          /\ planned[k].sel = 3
          /\ Len(Chain(planned[k].op, planned[k].ext)) > 3
          /\ <<planned[k].ext, planned[k].op, 2>> \in consulted

RECURSIVE InputsOf(_, _)
\* the inputs of the planned invocations with signature sig, in plan order
InputsOf(plan, sig) ==
    IF plan = <<>> THEN <<>>
    ELSE (IF Head(plan).sig = sig THEN Head(plan).inputs ELSE <<>>)
           \o InputsOf(Tail(plan), sig)

\* position of the first occurrence of x in q
FirstIndex(q, x) == CHOOSE i \in 1..Len(q) : q[i] = x /\ \A j \in 1..(i - 1) : q[j] # x

\* out holds the elements of q once each, in the order they first appear in q
IsFirstSeenUnion(out, q) ==
    /\ Range(out) = Range(q)
    /\ \A i, j \in 1..Len(out) : i < j =>
          /\ out[i] # out[j]
          /\ FirstIndex(q, out[i]) < FirstIndex(q, out[j])

\* the paths execute_batched_command appends for a batch that takes paths
PathList(batch) ==
    SubSeq(BatchArgs(batch), Len(batch.sig[2]) + 1, Len(BatchArgs(batch)))

\* C4: the batches have pairwise distinct signatures, one per signature of
\* the planned invocations; one process is spawned per batch; and the path
\* list of a batch is the first-seen-order union of the inputs of the
\* planned invocations that share its signature.
C4_BatchesMergedBySignature ==
    /\ \A i, j \in 1..Len(command_batches) :
          i # j => command_batches[i].sig # command_batches[j].sig
    /\ {command_batches[i].sig : i \in 1..Len(command_batches)}
          = {planned[k].sig : k \in 1..Len(planned)}
    /\ \A i \in 1..Len(command_batches) :
          command_batches[i].sig[1] # "just" =>
              IsFirstSeenUnion(PathList(command_batches[i]),
                               InputsOf(planned, command_batches[i].sig))
    /\ task # <<>> => Len(task) = Len(command_batches)
    /\ \A i \in Tasks : task[i].spawns <= 1
    /\ pc = "done" => \A i \in Tasks : task[i].spawns = 1

\* a finished run in which two categories shared one invocation
C4_Witness ==
    /\ pc = "done"
    /\ Len(task) = 1
    /\ \E k, l \in 1..Len(planned) :
          /\ planned[k].ext # planned[l].ext
          /\ planned[k].sig = planned[l].sig
          /\ planned[k].inputs # planned[l].inputs
          /\ Len(PathList(command_batches[1])) = 2

\* C5: an executable that cannot be spawned gives 127 and any other spawn
\* error gives 1, as the result of that invocation only: nothing is raised
\* once the batches are submitted, and when process_files returns every
\* submitted batch has run to completion and has been folded into the result.
C5_FailureDoesNotAbortSiblings ==
    /\ \A i \in Tasks : task[i].st = "failed" => task[i].code \in {127, 1}
    /\ \A i \in Tasks :
          task[i].st = "done" =>
              task[i].code \in ToolExitCodes \cup {127, 1}
    /\ pc = "raised" => task = <<>>
    /\ pc = "done" /\ command_batches # <<>> =>
          /\ Len(task) = Len(command_batches)
          /\ \A i \in Tasks : task[i].st = "done" /\ i \in Collected

\* a finished run in which a spawn failure was collected before the result
\* of a sibling that ran
C5_Witness ==
    /\ pc = "done"
    /\ Len(results) = 2
    /\ task[results[1]].code = 127
    /\ task[results[2]].code = 3
    /\ task[results[2]].spawns = 1

\* C6: the output block of an invocation is written with output_lock held
\* from its first write to its last: the lock has one holder, the holder is
\* the only invocation inside an output block, and while a block is open
\* every line that reaches the streams is written by the holder.
C6_OutputBlockIsAtomic ==
    [][ /\ \A i, j \in Tasks :
              task[i].st = "stderr" /\ task[j].st = "stderr" => i = j
        /\ \A i \in Tasks :
              task[i].st = "stderr" =>
                  /\ lock = i
                  /\ last_write' # last_write => last_write'.who = i
        /\ lock # 0 => task[lock].st = "stderr" ]_vars

\* an output block is open after its first write while another invocation
\* is waiting to write its trace line
C6_Witness ==
    \E i, j \in Tasks :
        /\ i # j
        /\ task[i].st = "stderr"
        /\ lock = i
        /\ last_write = Written(i, "stdout")
        /\ task[j].st = "trace"

\* C7 as stated: when the output block of an invocation begins, the last
\* line written to the streams is that invocation's trace line, and the
\* lock taken for the trace is still held by it.
C7_TraceAdjacentToOutput ==
    [][ \A i \in Tasks :
            /\ task[i].st \in {"spawn", "running", "captured"} => lock = i
            /\ task[i].st = "captured" /\ task'[i].st = "stderr" =>
                  last_write = Written(i, "trace") ]_vars

\* C7: the trace line of an invocation is written under output_lock before
\* its process is spawned and so before its output or error message, but in
\* a critical section of its own: the lock is free while the process runs,
\* and the trace is adjacent to the output only with a single worker.
C7_TraceBeforeOutput ==
    [][ \A i \in Tasks :
            /\ task[i].st \in {"spawn", "running", "captured", "failed", "stderr", "done"}
                  => task[i].traced
            /\ task[i].st \in {"spawn", "running", "captured", "failed"} => lock # i
            /\ task[i].st = "captured" /\ task'[i].st = "stderr" =>
                  /\ lock = 0
                  /\ pool_size = 1 => last_write = Written(i, "trace") ]_vars

\* an output block has begun, after the invocation's trace, while the last
\* line on the streams is another invocation's
C7_Witness ==
    \E i \in Tasks :
        /\ task[i].st = "stderr"
        /\ task[i].traced
        /\ last_write.who \in Tasks \ {i}

\* C8: once process_files has reached the execution step, the pool has
\* min(number of batches, hardware parallelism) workers and at least one,
\* and no more external processes run at a time than the pool has workers.
C8_PoolSizeAtLeastOne ==
    /\ pc \in {"submit", "raised"} =>
          pool_size = Min(Len(command_batches), IF cpu_count = 0 THEN 1 ELSE cpu_count)
    /\ pc \in {"submit", "raised", "collect"} => pool_size >= 1
    /\ Cardinality(Spawned) <= pool_size

\* the operations the mode asks for
Requested(m) == IF m = "both" THEN {"lint", "format"} ELSE {m}

\* the category has a tool chain for the operation
HasChain(ext, op) ==
    IF op = "lint" THEN ext \in DOMAIN LINTER_MAP ELSE ext \in DOMAIN FORMATTER_MAP

\* C9: when the planner has finished, every (category, operation) pair that
\* has a chain of which no tool is on PATH has been reported as a missing
\* tool exactly once.
C9_MissingToolReportedOnce ==
    PlanComplete =>
        \A g \in 1..Len(file_groups) : \A op \in Requested(mode) :
            LET ext == file_groups[g].ext
            IN  (/\ HasChain(ext, op)
                 /\ \A i \in 1..Len(Chain(op, ext)) : Chain(op, ext)[i].tool \notin path_cmds)
                => Cardinality({k \in 1..Len(warnings) :
                                   warnings[k] = Warning("missing_tool", <<ext, op>>)}) = 1

\* C10: a file whose category has no chain for the requested mode is warned
\* about, is in no file group and in no batch; a file whose category has one
\* is grouped; and the warnings leave the exit code at that of the tools.
C10_UnconfiguredFileIsSkipped ==
    /\ pc \in {"plan", "done"} /\ mode \in Modes =>
          \A k \in 1..Len(expanded_files) :
              LET f == expanded_files[k]
              IN  IF \A op \in Requested(mode) : ~HasChain(MappedExt(f), op)
                  THEN /\ Warning("no_linter_configured", f) \in Range(warnings)
                       /\ \A g \in 1..Len(file_groups) : f \notin Range(file_groups[g].files)
                       /\ \A b \in 1..Len(command_batches) :
                             f \notin Range(command_batches[b].files)
                  ELSE /\ Warning("no_linter_configured", f) \notin Range(warnings)
                       /\ \E g \in 1..Len(file_groups) : f \in Range(file_groups[g].files)
    /\ \A b \in 1..Len(command_batches) : \A f \in Range(command_batches[b].files) :
          IsDir(f) \/ MappedExt(f) \in DOMAIN LINTER_MAP \cup DOMAIN FORMATTER_MAP
    /\ pc = "done" =>
          exit_code \in {0} \cup {task[i].code : i \in Tasks}

\* the planner has finished for the inputs a.py and x.unknownext: one
\* warning, for x.unknownext, and one batch, over a.py
C10_Witness ==
    /\ PlanComplete
    /\ Range(expanded_files) = {"a.py", "x.unknownext"}
    /\ Range(warnings) = {Warning("no_linter_configured", "x.unknownext")}
    /\ Len(command_batches) = 1
    /\ command_batches[1].files = <<"a.py">>

\* the file has no tool chain for any operation the mode asks for
Unclassified(f, m) == \A op \in Requested(m) : ~HasChain(MappedExt(f), op)

\* C11: when no expanded input has a tool chain for the requested mode,
\* process_files returns 0 right after classification: nothing is planned,
\* no batch is submitted and no process is spawned.
C11_NothingToProcessReturnsZero ==
    (/\ pc \notin {"expand", "group"}
     /\ mode \in Modes
     /\ \A k \in 1..Len(expanded_files) : Unclassified(expanded_files[k], mode))
    => /\ pc = "done"
       /\ exit_code = 0
       /\ command_batches = <<>>
       /\ task = <<>>

\* the run over a directory holding only an ignored file has returned 0
C11_Witness ==
    /\ files = <<"build">>
    /\ pc = "done"
    /\ expanded_files = <<>>
    /\ Warning("empty_directory", "build") \in Range(warnings)
    /\ exit_code = 0
    /\ task = <<>>

\* the input is skipped by the expansion loop
Skipped(p, ignores) == ~Exists(p) \/ (IsDir(p) /\ Discovered[p, ignores] = <<>>)

\* C12: an input that does not exist or a directory without discovered
\* files is warned about and is passed to no invocation, while every other
\* input file that has an available tool for a requested operation is in
\* the path list of an invocation.
C12_SkippedInputIsOnlyWarned ==
    PlanComplete =>
        \A k \in 1..Len(files) :
            IF Skipped(files[k], config_ignores)
            THEN /\ \E w \in Range(warnings) :
                       /\ w.kind \in {"missing_path", "empty_directory"}
                       /\ w.subject = files[k]
                 /\ \A b \in 1..Len(command_batches) :
                       files[k] \notin Range(command_batches[b].files)
            ELSE ~IsDir(files[k]) =>
                    \A op \in Requested(mode) :
                        (/\ HasChain(MappedExt(files[k]), op)
                         /\ \E i \in 1..Len(Chain(op, MappedExt(files[k]))) :
                               Chain(op, MappedExt(files[k]))[i].tool \in path_cmds)
                        => \E b \in 1..Len(command_batches) :
                               files[k] \in Range(command_batches[b].files)

\* the status the program ends with as its parent sees it: -2 stands for
\* death by signal 2, -1 for a program that has not ended
ProgramStatus ==
    CASE pc = "done"             -> exit_code
      [] pc = "raised"           -> 1
      [] pc = "exit_1"           -> 1
      [] pc = "killed_by_SIGINT" -> -2
      [] OTHER                   -> -1

\* C13: a run interrupted while batches are planned or executed ends with
\* exit code 130.
C13_InterruptGives130 ==
    pc \in InterruptOutcomes => ProgramStatus = 130

\* the (executable, fixed arguments) pairs the descriptors of a registry build
RegistrySignatures(registry) ==
    UNION {{<<registry[ext][i].cmd, registry[ext][i].pre>> :
               i \in 1..Len(registry[ext])} : ext \in DOMAIN registry}

\* some tool of the chain is on PATH
ChainAvailable(op, ext) ==
    \E i \in 1..Len(Chain(op, ext)) : Chain(op, ext)[i].tool \in path_cmds

\* C14: every planned invocation belongs to an operation the mode asks for
\* and is built from a descriptor of that operation's registry; in lint
\* mode no batch has the signature of a formatter descriptor, in format
\* mode none has that of a linter descriptor, and in the default mode a
\* category is planned for both operations.
C14_ModeSelectsRegistry ==
    pc = "plan" =>
        /\ \A k \in 1..Len(planned) :
              LET e == planned[k]
              IN  /\ e.op \in Requested(mode)
                  /\ HasChain(e.ext, e.op)
                  /\ e.sig = Signature(Chain(e.op, e.ext)[e.sel], e.inputs)
        /\ mode = "lint" =>
              \A b \in 1..Len(command_batches) :
                  command_batches[b].sig \notin RegistrySignatures(FORMATTER_MAP)
        /\ mode = "format" =>
              \A b \in 1..Len(command_batches) :
                  command_batches[b].sig \notin RegistrySignatures(LINTER_MAP)
        /\ mode = "both" =>
              \A g \in 1..(next_group - 1) : \A op \in {"lint", "format"} :
                  LET ext == file_groups[g].ext
                  IN  HasChain(ext, op) /\ ChainAvailable(op, ext) =>
                          \E k \in 1..Len(planned) :
                              planned[k].ext = ext /\ planned[k].op = op

\* the planner has finished in lint mode for a category whose formatter is
\* on PATH too, and has planned the linter only
C14_Witness ==
    /\ PlanComplete
    /\ mode = "lint"
    /\ Len(planned) = 1
    /\ planned[1].op = "lint"
    /\ HasChain(planned[1].ext, "format")
    /\ ChainAvailable("format", planned[1].ext)
    /\ command_batches[1].sig \in RegistrySignatures(LINTER_MAP)

\* C15: the argument vector of every invocation that takes paths is the
\* fixed arguments of the selected descriptor, in the builder's order,
\* followed by the inputs of the batch, each once.
C15_ArgvIsFixedArgsThenInputs ==
    \A b \in 1..Len(command_batches) : \A k \in 1..Len(planned) :
        LET batch == command_batches[b]
            e     == planned[k]
            d     == Chain(e.op, e.ext)[e.sel]
            argv  == BatchArgs(batch)
        IN  e.sig = batch.sig /\ d.files =>
                /\ Len(argv) >= Len(d.pre)
                /\ SubSeq(argv, 1, Len(d.pre)) = d.pre
                /\ IsFirstSeenUnion(SubSeq(argv, Len(d.pre) + 1, Len(argv)),
                                    InputsOf(planned, batch.sig))

\* the batch runs just --fmt
IsJustFmt(batch) == batch.sig[1] = "just" /\ "--fmt" \in Range(batch.sig[2])

\* C16: the argument vector of the just --fmt batch is its fixed arguments:
\* no justfile path of the batch is in it; there is one such batch however
\* many justfiles were grouped, and it is spawned once.
C16_JustFmtTakesNoPaths ==
    /\ \A b \in 1..Len(command_batches) :
          IsJustFmt(command_batches[b]) =>
              /\ BatchArgs(command_batches[b]) = <<"--fmt", "--unstable">>
              /\ \A f \in Range(command_batches[b].files) :
                    f \notin Range(BatchArgs(command_batches[b]))
              /\ \A c \in 1..Len(command_batches) :
                    IsJustFmt(command_batches[c]) => c = b
              /\ b \in Tasks => task[b].spawns <= 1
              /\ b \in Tasks /\ pc = "done" => task[b].spawns = 1
    /\ \A k \in 1..Len(planned) :
          planned[k].ext = "justfile" =>
              \E b \in 1..Len(command_batches) :
                  /\ IsJustFmt(command_batches[b])
                  /\ Range(planned[k].inputs) \subseteq Range(command_batches[b].files)

\* a finished run over two justfiles: one batch holding both, spawned once
C16_Witness ==
    /\ pc = "done"
    /\ Len(command_batches) = 1
    /\ IsJustFmt(command_batches[1])
    /\ command_batches[1].files = <<"justfile", "sub/Justfile">>
    /\ task[1].spawns = 1

\* the literal names among the built-in ignore patterns
DefaultIgnoredNames ==
    {".git", "node_modules", "__pycache__", ".pytest_cache", "dist", "build",
     ".venv", "venv", ".env", "env", ".mypy_cache", ".ruff_cache", ".coverage"}

\* C17: with vendor/** in the ignore list, no file found by discovery has a
\* vendor segment or a segment ignored by default, whatever the directory
\* arguments are.
C17_VendorPatternExcludesVendorSegments ==
    pc = "group" /\ config_ignores = <<"vendor/**">> =>
        \A k \in 1..Len(expanded_files) :
            expanded_files[k] \notin Range(files) =>
                /\ "vendor" \notin Range(PathParts(expanded_files[k]))
                /\ Range(PathParts(expanded_files[k])) \cap DefaultIgnoredNames = {}

\* a pattern of the ignore list matches the path, its base name or one of
\* its segments
MatchesIgnore(f, ignores) ==
    \E pat \in Range(default_ignore_patterns) \cup Range(ignores) :
        \/ Fnmatch(f, pat)
        \/ Fnmatch(PathName(f), pat)
        \/ \E i \in 1..Len(PathParts(f)) : Fnmatch(PathParts(f)[i], pat)

\* the suffix or the name of the file is registered
Registered(f) ==
    \/ Lower(PathSuffix(f)) \in DOMAIN LINTER_MAP \cup DOMAIN FORMATTER_MAP
    \/ Lower(PathName(f)) \in {"justfile", "justfile.just"}

\* the files discovery has to return for a directory
Discoverable(d, ignores) ==
    {f \in RegularFiles :
        /\ StartsWith(f, d \o "/")
        /\ ~MatchesIgnore(f, ignores)
        /\ Registered(f)}

\* C18: the expansion of a directory argument is the strictly increasing
\* sequence of the regular files of its subtree that match no ignore
\* pattern and are registered, and repeating the argument repeats the
\* same sequence.
C18_DiscoveryIsFilteredAndSorted ==
    pc = "group" /\ (\A k \in 1..Len(files) : IsDir(files[k]) /\ files[k] = files[1]) =>
        LET n     == Cardinality(Discoverable(files[1], config_ignores))
            first == SubSeq(expanded_files, 1, n)
        IN  /\ Len(expanded_files) = n * Len(files)
            /\ Range(first) = Discoverable(files[1], config_ignores)
            /\ \A i \in 1..(n - 1) : StrLess(first[i], first[i + 1])
            /\ \A r \in 1..(Len(files) - 1) :
                  SubSeq(expanded_files, r * n + 1, (r + 1) * n) = first

\* the tree proj has been discovered: the ignored directories, the
\* unregistered file and the directory named d.py are left out
C18_Witness ==
    /\ pc = "group"
    /\ files = <<"proj">>
    /\ config_ignores = <<>>
    /\ expanded_files =
          <<"proj/.github/workflows/r.yaml", "proj/Justfile", "proj/Justfile.just",
            "proj/K.PY", "proj/d.py/i.json", "proj/k.py", "proj/vendor/w.py">>

\* the file lies below a directory workflows of a directory .github
InWorkflowDir(f) ==
    \E i \in 1..(Len(PathParts(f)) - 2) :
        PathParts(f)[i] = ".github" /\ PathParts(f)[i + 1] = "workflows"

\* the categories the file was grouped into
GroupsOf(f) ==
    {file_groups[g].ext : g \in {h \in 1..Len(file_groups) : f \in Range(file_groups[h].files)}}

\* the classification of the expanded files is known
Classified == pc \in {"plan", "done"} /\ mode \in Modes

\* C19: a YAML file below .github/workflows is grouped into the workflow
\* category and planned with its chains only, and no other YAML file is
\* grouped into the workflow category.
C19_WorkflowCategoryIsExact ==
    Classified =>
        \A k \in 1..Len(expanded_files) :
            LET f == expanded_files[k]
            IN  Lower(PathSuffix(f)) \in {".yml", ".yaml"} =>
                    /\ InWorkflowDir(f) =>
                          /\ GroupsOf(f) = {".github-workflow"}
                          /\ \A e \in Range(planned) :
                                f \in Range(e.inputs) =>
                                    /\ e.ext = ".github-workflow"
                                    /\ e.sig[1] = Chain(e.op, ".github-workflow")[e.sel].cmd
                    /\ ~InWorkflowDir(f) => ".github-workflow" \notin GroupsOf(f)

Hung == 1 \in Tasks /\ task[1].st = "running"

\* every submitted batch has completed
AllCompleted == \A i \in Tasks : task[i].st = "done"

\* C21 as stated: process_files returns only after every submitted batch
\* has completed, it returns when every external process terminates, it
\* never returns when one of them never terminates, and the other
\* batches still finish in that case.
C21_OthersFinishWhileOneHangs ==
    /\ [](pc = "done" => AllCompleted)
    /\ []<>(~Hung) => ((pc = "submit") ~> (pc = "done"))
    /\ <>[]Hung => [](pc # "done")
    /\ <>[]Hung => \A j \in 2..MaxBatches :
                      [](j \in Tasks => <>(j \in Tasks /\ task[j].st = "done"))

\* C21, amended: process_files returns only after every submitted batch
\* has completed, it returns when every external process terminates and
\* never returns when one of them never terminates; the other batches
\* finish while one process hangs when the pool has a second worker, and
\* are never started when the hanging process occupies the only worker.
C21_ReturnsWhenToolsTerminate ==
    /\ [](pc = "done" => AllCompleted)
    /\ []<>(~Hung) => ((pc = "submit") ~> (pc = "done"))
    /\ <>[]Hung => [](pc # "done")
    /\ <>[](Hung /\ pool_size >= 2) =>
          \A j \in 2..MaxBatches : [](j \in Tasks => <>(j \in Tasks /\ task[j].st = "done"))
    /\ <>[](Hung /\ pool_size = 1) =>
          \A j \in 2..MaxBatches : [](j \in Tasks => task[j].st = "queued")

\* the first batch's process is running on the only worker while a second
\* batch is queued
C21_Witness ==
    /\ Hung
    /\ pool_size = 1
    /\ 2 \in Tasks
    /\ task[2].st = "queued"


\* the expanded file list of a category
FileListOf(ext) ==
    (CHOOSE g \in Range(file_groups) : g.ext = ext).files

\* the planner hands the directory arguments to the descriptor
DirectoryShortcut(d) ==
    /\ d.supports_directories
    /\ input_directories # <<>>
    /\ config_ignores = <<>>

\* C22: the inputs handed to the selected descriptor are the top-level
\* directory arguments exactly when the descriptor supports directories, a
\* top-level input is a directory and no ignore patterns are configured,
\* and the category's expanded file list otherwise; with ignore patterns
\* configured no directory is passed to a tool.
C22_InputsAreDirectoriesOrFileList ==
    pc = "plan" =>
        /\ \A e \in Range(planned) :
              LET d == Chain(e.op, e.ext)[e.sel]
              IN  e.inputs = IF DirectoryShortcut(d)
                             THEN input_directories
                             ELSE FileListOf(e.ext)
        /\ config_ignores # <<>> =>
              \A b \in Range(command_batches) : \A x \in Range(b.files) : ~IsDir(x)

\* a descriptor that supports directories was selected on a command line
\* with a directory while ignore patterns are configured
C22_Witness ==
    /\ pc = "plan"
    /\ config_ignores # <<>>
    /\ input_directories # <<>>
    /\ \E e \in Range(planned) :
          /\ Chain(e.op, e.ext)[e.sel].supports_directories
          /\ e.inputs = FileListOf(e.ext)


\* the path lies below the directory
Below(f, dir) == StartsWith(f, dir \o "/")

\* the invocation planned for a category and an operation receives the
\* file, as itself or through a directory that contains it
PassedTo(f, ext, op) ==
    \E e \in Range(planned) :
        /\ e.ext = ext
        /\ e.op = op
        /\ \/ f \in Range(e.inputs)
           \/ \E x \in Range(e.inputs) : IsDir(x) /\ Below(f, x)

\* C23: every explicitly named input file whose category has an available
\* tool for a requested operation is passed to that tool's invocation, as
\* itself or through a directory argument that contains it, also when the
\* command line names directories.
C23_NamedFileReachesItsTool ==
    PlanComplete =>
        \A k \in 1..Len(files) :
            LET f == files[k]
            IN  Exists(f) /\ ~IsDir(f) /\ MappedExt(f) # "" =>
                    \A op \in Requested(mode) :
                        HasChain(MappedExt(f), op) /\ ChainAvailable(op, MappedExt(f)) =>
                            PassedTo(f, MappedExt(f), op)


\* the operations whose invocations were merged into the batch
OpsOf(i) == {e.op : e \in {x \in Range(planned) : x.sig = command_batches[i].sig}}

\* the files the batch's process works on: its arguments, and for a
\* directory argument the files below it
FilesOf(i) ==
    {f \in RegularFiles :
        \E x \in Range(command_batches[i].files) : f = x \/ (IsDir(x) /\ Below(f, x))}

\* C24: a format invocation never runs at the same time as a lint
\* invocation over the same file.
C24_FormatNeverOverlapsLint ==
    \A i, j \in Spawned :
        "lint" \in OpsOf(i) /\ "format" \in OpsOf(j) => FilesOf(i) \cap FilesOf(j) = {}


\* output_lock is held by a worker that is between its two writes, and by
\* no worker that waits on its process or has returned
LockHeldOnlyWhileWriting ==
    /\ lock # 0 => lock \in Tasks /\ task[lock].st = "stderr"
    /\ \A i \in Spawned : lock # i

\* C25 as stated: the lock is never held while a worker waits on its
\* process and every acquisition is released, and a tool that hangs does
\* not prevent the other invocations from completing.
C25_HangNeverBlocksOthers ==
    /\ []LockHeldOnlyWhileWriting
    /\ (lock # 0) ~> (lock = 0)
    /\ <>[]Hung => \A j \in 2..MaxBatches :
                      []((j \in Tasks /\ task[j].st = "queued") =>
                            <>(j \in Tasks /\ task[j].st = "done"))

\* C25, amended: the lock is never held while a worker waits on its process
\* and every acquisition is released, so that while a tool hangs every
\* invocation that a worker has taken up emits its output and completes;
\* the invocations queued behind a hanging tool still wait for a worker.
C25_LockNeverBlocksStartedWork ==
    /\ []LockHeldOnlyWhileWriting
    /\ (lock # 0) ~> (lock = 0)
    /\ <>[]Hung => \A j \in 2..MaxBatches :
                      []((j \in Tasks /\ task[j].st \notin {"queued", "done"}) =>
                            <>(j \in Tasks /\ task[j].st = "done"))

\* a worker holds the lock for its output block while the process of the
\* first batch is running
C25_Witness ==
    /\ Hung
    /\ lock \in Tasks \ {1}
    /\ task[lock].st = "stderr"


\* subprocess.run has been called for the batch
Launched(i) == task[i].st \in {"running", "captured", "stderr", "failed", "done"}

\* C26: each invocation signature of the batch plan is spawned exactly once
\* per run: every batch has a task of its own, subprocess.run is called
\* once for it, whatever the outcome, and when process_files returns no
\* batch is left unspawned.
C26_EachBatchSpawnedOnce ==
    pc \in {"collect", "done"} =>
        /\ Len(task) = Len(command_batches)
        /\ \A i, j \in Tasks : i # j => command_batches[i].sig # command_batches[j].sig
        /\ \A i \in Tasks : task[i].spawns = IF Launched(i) THEN 1 ELSE 0
        /\ pc = "done" => \A i \in Tasks : Launched(i)

\* process_files has returned after one invocation exited with a non-zero
\* code and another could not be spawned
C26_Witness ==
    /\ pc = "done"
    /\ \E i, j \in Tasks :
          /\ task[i].code = 3
          /\ task[j].code = 127
          /\ task[i].spawns = 1
          /\ task[j].spawns = 1


\* the values shutil.which produced for the name
Looked(name) == {lookups[k].found : k \in {h \in 1..Len(lookups) : lookups[h].name = name}}

\* the value of the first lookup of the name
FirstLooked(name) ==
    lookups[CHOOSE k \in 1..Len(lookups) :
              /\ lookups[k].name = name
              /\ \A h \in 1..(k - 1) : lookups[h].name # name].found

\* C27: in a single-threaded run the PATH lookup is made at most once per
\* name, every call returns the result of the first lookup of its name
\* whatever is on PATH by then, and a cache entry, once added, is never
\* altered or removed.
C27_FirstLookupIsKept ==
    /\ [](\A a, b \in 1..Len(lookups) : a # b => lookups[a].name # lookups[b].name)
    /\ [](\A t \in Threads :
            thread[t].at = "returned" =>
                /\ Looked(thread[t].name) # {}
                /\ thread[t].result = FirstLooked(thread[t].name))
    /\ [][\A n \in DOMAIN cache : n \in DOMAIN cache' /\ cache'[n] = cache[n]]_vars

\* a later call has returned the first lookup's result although the tool's
\* presence on PATH has changed since
C27_Witness ==
    /\ Len(thread) = 1
    /\ thread[1].at = "returned"
    /\ thread[1].calls >= 2
    /\ thread[1].result # (thread[1].name \in path_cmds)

\* C28: when several threads call is_command_available, the cache holds for
\* each name one boolean, the result of one of the lookups of that name,
\* and every caller returns a value that a lookup of its name produced.
C28_RacingCallersSeeLookupResults ==
    /\ DOMAIN cache \subseteq ToolNames
    /\ \A n \in DOMAIN cache : cache[n] \in Looked(n)
    /\ \A t \in Threads :
          thread[t].at = "returned" => thread[t].result \in Looked(thread[t].name)

\* two threads looked the same name up with different results, and both
\* have returned
C28_Witness ==
    /\ Len(thread) >= 2
    /\ thread[1].at = "returned"
    /\ thread[2].at = "returned"
    /\ thread[1].name = thread[2].name
    /\ thread[1].calls = 1
    /\ thread[2].calls = 1
    /\ Looked(thread[1].name) = BOOLEAN


\* C29: execute_linters returns 2 only when no descriptor of the chain is
\* available, process_file_group warns of a missing tool only in that case,
\* and a non-zero exit code of a tool that ran makes the group's exit code
\* non-zero.
C29_TwoMeansNoToolAvailable ==
    pc = "returned" =>
        /\ \A k \in Tasks : task[k].code = 2 => task[k].spawns = 0
        /\ Len(warnings) = Cardinality({k \in Tasks : task[k].spawns = 0})
        /\ (\E k \in Tasks : task[k].spawns = 1 /\ task[k].code # 0) => exit_code # 0


\* the path of a file relative to the directory it lies below
RelativeTo(f, dir) == SubSeq(f, Len(dir) + 2, Len(f))

\* C30: a registered file below a directory argument is left out of the
\* expansion only when its path below that directory matches an ignore
\* pattern (as a whole, by its name or by one of its segments); the
\* segments of the directory argument itself exclude nothing.
C30_OnlyPathBelowArgumentIsMatched ==
    pc = "group" =>
        \A k \in 1..Len(files) :
            IsDir(files[k]) =>
                \A f \in RegularFiles :
                    /\ Below(f, files[k])
                    /\ Registered(f)
                    /\ ~MatchesIgnore(RelativeTo(f, files[k]), config_ignores)
                    => f \in Range(expanded_files)

====
